---- MODULE Spec2Model ----
(***************************************************************************)
(* A model of final/training/convert_annotations.py: the VinBigData CSV to *)
(* YOLO converter (weighted boxes fusion, label conversion, train/val      *)
(* split), and of train() of final/training/train_yolo.py.                 *)
(*                                                                         *)
(* Numbers.  The program computes in binary floating point.  The model     *)
(* computes exactly: a box is a tuple of integers counted in grid units    *)
(* (1/disp_w horizontally, 1/disp_h vertically), and a quotient is a pair  *)
(* <<numerator, denominator>> with a positive denominator.  The fractions  *)
(* val_split and include_no_finding_ratio are drawn from the quarters,     *)
(* which binary floating point represents exactly, so int(n * fraction) is *)
(* the exact floor for them.                                               *)
(***************************************************************************)
EXTENDS Integers, Sequences, FiniteSets, TLC

VARIABLES
    \* ---- convert_dataset ----
    pc,                   \* the stage about to run; "off" outside a run
    run,                  \* the number of the run, 1 for the first
    df,                   \* the rows of the CSV, in file order
    val_split,            \* quotient
    include_no_finding_ratio,   \* quotient
    seed,
    rng,                  \* state of the module-level generator of random
    finding_df,           \* rows with class_id != 14 and non-null boxes
    pure_no_finding,      \* set of image ids
    image_annotations,    \* ordered dict: sequence of [img, rows]
    image_display_sizes,  \* dict: img -> <<display_w, display_h>>
    fuse_idx,             \* position of the loop of line 213
    yolo_labels,          \* ordered dict: sequence of [img, lines]
    finding_image_list,   \* after the shuffle of line 290
    selected_no_finding,  \* line 302
    train_images,
    val_images,
    prev,                 \* what the previous run computed, <<>> in run 1
    img_boxes_list,       \* boxes_list of the image fused last (line 222)
    merged_boxes,         \* what the fusion returned for it (line 259)
    columns,              \* the columns the CSV has
    src_missing,          \* images with neither .jpg nor .png in images_dir
    dirs,                 \* output directories that exist: <<kind, split>>
    out_images,           \* image files in the output: <<split, img>>
    out_labels,           \* label files in the output: <<split, img>> -> lines
    yaml_written,         \* dataset.yaml exists
    mat_todo,             \* <<split, img>> the loops of lines 327-328 still visit
    written,              \* <<split, img>> materialized by this run
    copied,               \* line 325
    missing,              \* line 324
    class_counts,         \* the per-class counts printed (lines 377-385)
    \* ---- weighted_boxes_fusion called on one image's boxes ----
    wbf_pc,          \* "call" before the call, "done" after it, "off" otherwise
    boxes_list,      \* per annotator: a list of [box, score, label]
    wbf_iou_thr,     \* iou_thr, a quotient
    wbf_skip,        \* skip_box_thr, in score units
    wbf_clusters,    \* the clusters the call built, in output order
    wbf_out,         \* the (boxes, scores, labels) the call returned, zipped
    wbf_lines,       \* the label lines convert_dataset derives from wbf_out
    \* ---- _iou called on two boxes ----
    iou_pc,          \* "call" before the calls, "done" after them, "off" otherwise
    iou_a,           \* the first box
    iou_b,           \* the second box
    iou_ab,          \* _iou(iou_a, iou_b)
    iou_ba,          \* _iou(iou_b, iou_a)
    iou_bb,          \* _iou(iou_b, iou_b)
    \* ---- train (train_yolo.py) ----
    tr_pc,           \* the statement train() is at; "off" outside a call
    tr_files,        \* the files that exist, by the name train() gives them
    metrics_json,    \* what models/best_metrics.json holds when it exists
    results_csv,     \* what the v2 run's results.csv holds when it exists
    model,           \* the weights the YOLO object was built from
    m_local,         \* the local m of line 142: <<>> while unbound, else <<v>>
    tr_error,        \* the exception that left train(), "none" without one
    epoch            \* epochs the call of line 196 has finished

wbf_vars == <<wbf_pc, boxes_list, wbf_iou_thr, wbf_skip, wbf_clusters,
              wbf_out, wbf_lines>>

\* the input, the output directory and the bookkeeping of a run
mat_vars == <<columns, src_missing, dirs, out_images, out_labels,
              yaml_written, mat_todo, written, copied, missing, class_counts>>

cd_vars == <<pc, run, df, val_split, include_no_finding_ratio, seed, rng,
             finding_df, pure_no_finding, image_annotations,
             image_display_sizes, fuse_idx, yolo_labels, finding_image_list,
             selected_no_finding, train_images, val_images, prev,
             img_boxes_list, merged_boxes, mat_vars>>

iou_vars == <<iou_pc, iou_a, iou_b, iou_ab, iou_ba, iou_bb>>

tr_vars == <<tr_pc, tr_files, metrics_json, results_csv, model, m_local,
             tr_error,
             epoch>>

vars == <<cd_vars, wbf_vars, iou_vars, tr_vars>>

----------------------------------------------------------------------------
(* Bounds of the model. *)

\* rows of the input CSV
MaxRows == 3
\* runs of convert_dataset over the same input
MaxRuns == 2

\* annotators of one image in a direct call of the fusion
MaxRads == 2
\* boxes all annotators together drew on one image
MaxBoxes == 3

----------------------------------------------------------------------------
(* Exact arithmetic helpers. *)

Max2(a, b) == IF a >= b THEN a ELSE b
Min2(a, b) == IF a <= b THEN a ELSE b

\* q1 > q2 for quotients with positive denominators
QGt(q1, q2) == q1[1] * q2[2] > q2[1] * q1[2]

RECURSIVE SumSeq(_)
SumSeq(s) == IF s = <<>> THEN 0 ELSE Head(s) + SumSeq(Tail(s))

RECURSIVE Flatten(_)
Flatten(ss) == IF ss = <<>> THEN <<>> ELSE Head(ss) \o Flatten(Tail(ss))

\* the elements of a finite set of integers, ascending
RECURSIVE SortedSeq(_)
SortedSeq(S) ==
    IF S = {} THEN <<>>
    ELSE LET m == CHOOSE x \in S : \A y \in S : x <= y
         IN  <<m>> \o SortedSeq(S \ {m})

Range(s) == {s[i] : i \in 1..Len(s)}

----------------------------------------------------------------------------
(* _iou (lines 96-108): boxes are <<x1, y1, x2, y2>>. *)

\* (mutant: the overlap extents are not clamped at 0)
_iou_noClamp(box1, box2) ==
    LET x1 == Max2(box1[1], box2[1])
        y1 == Max2(box1[2], box2[2])
        x2 == Min2(box1[3], box2[3])
        y2 == Min2(box1[4], box2[4])
        inter == (x2 - x1) * (y2 - y1)
        area1 == (box1[3] - box1[1]) * (box1[4] - box1[2])
        area2 == (box2[3] - box2[1]) * (box2[4] - box2[2])
        union == area1 + area2 - inter
    IN  IF union > 0 THEN <<inter, union>> ELSE <<0, 1>>

\* (mutant: the union counts the first box twice)
_iou_area1Twice(box1, box2) ==
    LET x1 == Max2(box1[1], box2[1])
        y1 == Max2(box1[2], box2[2])
        x2 == Min2(box1[3], box2[3])
        y2 == Min2(box1[4], box2[4])
        inter == Max2(0, x2 - x1) * Max2(0, y2 - y1)
        area1 == (box1[3] - box1[1]) * (box1[4] - box1[2])
        area2 == (box2[3] - box2[1]) * (box2[4] - box2[2])
        union == area1 + area1 - inter
    IN  IF union > 0 THEN <<inter, union>> ELSE <<0, 1>>

\* (mutant: the intersection is not subtracted from the union)
_iou_noInter(box1, box2) ==
    LET x1 == Max2(box1[1], box2[1])
        y1 == Max2(box1[2], box2[2])
        x2 == Min2(box1[3], box2[3])
        y2 == Min2(box1[4], box2[4])
        inter == Max2(0, x2 - x1) * Max2(0, y2 - y1)
        area1 == (box1[3] - box1[1]) * (box1[4] - box1[2])
        area2 == (box2[3] - box2[1]) * (box2[4] - box2[2])
        union == area1 + area2
    IN  IF union > 0 THEN <<inter, union>> ELSE <<0, 1>>

_iou(box1, box2) ==
    LET x1 == Max2(box1[1], box2[1])
        y1 == Max2(box1[2], box2[2])
        x2 == Min2(box1[3], box2[3])
        y2 == Min2(box1[4], box2[4])
        inter == Max2(0, x2 - x1) * Max2(0, y2 - y1)
        area1 == (box1[3] - box1[1]) * (box1[4] - box1[2])
        area2 == (box2[3] - box2[1]) * (box2[4] - box2[2])
        union == area1 + area2 - inter
    IN  IF union > 0 THEN <<inter, union>> ELSE <<0, 1>>

----------------------------------------------------------------------------
(* weighted_boxes_fusion (lines 26-93). *)

\* lines 38-46: flatten the annotators' lists, keeping scores above the
\* skip threshold, in encounter order
PoolBoxes(bl, skip_box_thr) ==
    SelectSeq(Flatten(bl), LAMBDA e : e.score > skip_box_thr)

\* line 56: np.unique returns the distinct labels in ascending order
UniqueLabels(pool) == SortedSeq({pool[i].label : i \in 1..Len(pool)})

\* lines 62-64: the pooled entries carrying one label, as pool indices
\* (mutant: the mask compares with >= instead of ==)
LabelIndices_ge(pool, label) ==
    SortedSeq({i \in 1..Len(pool) : pool[i].label >= label})
LabelIndices(pool, label) ==
    SortedSeq({i \in 1..Len(pool) : pool[i].label = label})

\* line 78: the test that puts candidate j into the cluster seeded by i
\* (mutant: >= instead of >)
JoinsSeed_ge(seedBox, candBox, iou_thr) ==
    ~QGt(iou_thr, _iou(seedBox, candBox))
JoinsSeed(seedBox, candBox, iou_thr) == QGt(_iou(seedBox, candBox), iou_thr)

\* lines 67-81: greedy clustering of one label's boxes.  idx is the
\* sequence of pool indices of the label, i the loop position, used the
\* positions already clustered.  A cluster records the label of the loop
\* of line 61 and its members as pool indices, the seed first.
\* (mutant: line 81 is missing, a joined box is not marked used)
RECURSIVE ClusterLoop_noMark(_, _, _, _, _, _)
ClusterLoop_noMark(pool, label, idx, i, used, iou_thr) ==
    IF i > Len(idx) THEN <<>>
    ELSE IF i \in used
         THEN ClusterLoop_noMark(pool, label, idx, i + 1, used, iou_thr)
    ELSE LET joined == {j \in (i + 1)..Len(idx) :
                           /\ j \notin used
                           /\ QGt(_iou(pool[idx[i]].box, pool[idx[j]].box),
                                  iou_thr)}
             members == <<i>> \o SortedSeq(joined)
             cluster == [label   |-> label,
                         members |-> [k \in 1..Len(members) |->
                                         idx[members[k]]]]
         IN  <<cluster>> \o
             ClusterLoop_noMark(pool, label, idx, i + 1, used \cup {i},
                                iou_thr)

RECURSIVE ClusterLoop(_, _, _, _, _, _)
ClusterLoop(pool, label, idx, i, used, iou_thr) ==
    IF i > Len(idx) THEN <<>>
    ELSE IF i \in used
         THEN ClusterLoop(pool, label, idx, i + 1, used, iou_thr)
    ELSE LET joined == {j \in (i + 1)..Len(idx) :
                           /\ j \notin used
                           /\ JoinsSeed(pool[idx[i]].box, pool[idx[j]].box,
                                        iou_thr)}
             members == <<i>> \o SortedSeq(joined)
             cluster == [label   |-> label,
                         members |-> [k \in 1..Len(members) |->
                                         idx[members[k]]]]
         IN  <<cluster>> \o
             ClusterLoop(pool, label, idx, i + 1, used \cup {i} \cup joined,
                         iou_thr)

\* lines 61-81 over all labels: the clusters in output order
RECURSIVE ClustersOfLabels(_, _, _)
ClustersOfLabels(pool, labels, iou_thr) ==
    IF labels = <<>> THEN <<>>
    ELSE ClusterLoop(pool, Head(labels), LabelIndices(pool, Head(labels)),
                     1, {}, iou_thr)
         \o ClustersOfLabels(pool, Tail(labels), iou_thr)

AllClusters(bl, iou_thr, skip_box_thr) ==
    LET pool == PoolBoxes(bl, skip_box_thr)
    IN  ClustersOfLabels(pool, UniqueLabels(pool), iou_thr)

\* lines 84-86: the coordinate c of the merged box.  weights / weights.sum()
\* followed by np.average(..., weights) is sum(s_i * c_i) / sum(s_i).
\* (mutant: the plain mean, the scores are ignored)
WeightedCoord_unweighted(pool, members, c) ==
    <<SumSeq([k \in 1..Len(members) |-> pool[members[k]].box[c]]),
      Len(members)>>
WeightedCoord(pool, members, c) ==
    <<SumSeq([k \in 1..Len(members) |->
                 pool[members[k]].score * pool[members[k]].box[c]]),
      SumSeq([k \in 1..Len(members) |-> pool[members[k]].score])>>

\* lines 84-91: the consensus of one cluster.  box holds four quotients,
\* score is the plain mean of the members' scores.
MergeCluster(pool, cluster) ==
    [box   |-> [c \in 1..4 |-> WeightedCoord(pool, cluster.members, c)],
     score |-> <<SumSeq([k \in 1..Len(cluster.members) |->
                            pool[cluster.members[k]].score]),
                 Len(cluster.members)>>,
     label |-> cluster.label]

\* lines 34-93: the (boxes, scores, labels) returned, zipped into records
weighted_boxes_fusion(bl, iou_thr, skip_box_thr) ==
    LET pool == PoolBoxes(bl, skip_box_thr)
        clusters == AllClusters(bl, iou_thr, skip_box_thr)
    IN  [k \in 1..Len(clusters) |-> MergeCluster(pool, clusters[k])]

----------------------------------------------------------------------------
(* Consensus box to label line (convert_dataset, lines 264-277). *)

\* lines 272-275: max(0, min(1, v)) on a quotient
Clamp01(q) ==
    IF q[1] < 0 THEN <<0, 1>> ELSE IF q[1] > q[2] THEN <<1, 1>> ELSE q

\* lines 266-269: centre form of a merged box whose coordinates are
\* quotients over one denominator, in grid units of 1/dw by 1/dh
CenterForm(box, dw, dh) ==
    [x_center |-> <<box[1][1] + box[3][1], 2 * box[1][2] * dw>>,
     y_center |-> <<box[2][1] + box[4][1], 2 * box[2][2] * dh>>,
     width    |-> <<box[3][1] - box[1][1], box[1][2] * dw>>,
     height   |-> <<box[4][1] - box[2][1], box[2][2] * dh>>]

\* line 277, the format {:.6f}: a quotient in [0,1] as a count of
\* millionths, rounded to nearest, ties to even
Fmt6(q) ==
    LET q1 == (q[1] * 1000) \div q[2]
        r1 == (q[1] * 1000) % q[2]
        q2 == (r1 * 1000) \div q[2]
        r2 == (r1 * 1000) % q[2]
        m  == q1 * 1000 + q2
    IN  IF 2 * r2 > q[2] \/ (2 * r2 = q[2] /\ m % 2 = 1) THEN m + 1 ELSE m

\* lines 265-277: one label line "class x_center y_center width height"
YoloLine(merged, dw, dh) ==
    LET cf == CenterForm(merged.box, dw, dh)
    IN  [cls      |-> merged.label,
         x_center |-> Fmt6(Clamp01(cf.x_center)),
         y_center |-> Fmt6(Clamp01(cf.y_center)),
         width    |-> Fmt6(Clamp01(cf.width)),
         height   |-> Fmt6(Clamp01(cf.height))]

YoloLines(fused, dw, dh) ==
    [k \in 1..Len(fused) |-> YoloLine(fused[k], dw, dh)]

----------------------------------------------------------------------------
(* The fusion called directly on one image's normalised boxes.             *)

\* the boxes of the direct calls are counted in hundredths of the frame
WbfGrid == 100

\* iou(BoxA, BoxB) = 3/5 = iou(BoxB, BoxC), iou(BoxA, BoxC) = 1/3;
\* BoxX1 and BoxX2 are the two boxes of Example 1 of the documentation
BoxA  == <<0, 0, 40, 60>>
BoxB  == <<10, 0, 50, 60>>
BoxC  == <<20, 0, 60, 60>>
BoxX1 == <<10, 10, 30, 30>>
BoxX2 == <<12, 11, 31, 29>>

WbfEntries ==
    { [box |-> BoxA,  score |-> 1, label |-> 3],
      [box |-> BoxB,  score |-> 2, label |-> 3],
      [box |-> BoxC,  score |-> 1, label |-> 3],
      [box |-> BoxB,  score |-> 1, label |-> 7],
      [box |-> BoxC,  score |-> 0, label |-> 3],
      [box |-> BoxX1, score |-> 1, label |-> 3],
      [box |-> BoxX2, score |-> 1, label |-> 3] }

WbfIouThrs == { <<1, 2>>, <<3, 5>> }
WbfSkipThrs == { 0, 1 }

SeqsUpTo(S, n) == UNION { [1..k -> S] : k \in 0..n }

\* the ways to cut a list of n boxes into at most MaxRads annotators'
\* lists: the positions after which a new annotator starts
Cuts(n) ==
    UNION { {c \in [1..r -> 0..n] : \A k \in 1..(r - 1) : c[k] <= c[k + 1]} :
              r \in 0..(MaxRads - 1) }

SplitAt(flat, c) ==
    [k \in 1..(Len(c) + 1) |->
        SubSeq(flat,
               IF k = 1 THEN 1 ELSE c[k - 1] + 1,
               IF k = Len(c) + 1 THEN Len(flat) ELSE c[k])]

\* no annotator at all, or up to MaxRads annotators with up to MaxBoxes
\* boxes between them
WbfInputs ==
    {<<>>} \cup
    UNION { {SplitAt(flat, c) : c \in Cuts(Len(flat))} :
              flat \in SeqsUpTo(WbfEntries, MaxBoxes) }

\* no run of convert_dataset is in progress
CdOff ==
    /\ pc = "off"
    /\ run = 0
    /\ df = <<>>
    /\ val_split = <<0, 1>>
    /\ include_no_finding_ratio = <<0, 1>>
    /\ seed = 0
    /\ rng = 0
    /\ finding_df = <<>>
    /\ pure_no_finding = {}
    /\ image_annotations = <<>>
    /\ image_display_sizes = <<>>
    /\ fuse_idx = 0
    /\ yolo_labels = <<>>
    /\ finding_image_list = <<>>
    /\ selected_no_finding = <<>>
    /\ train_images = {}
    /\ val_images = {}
    /\ prev = <<>>
    /\ img_boxes_list = <<>>
    /\ merged_boxes = <<>>
    /\ columns = {}
    /\ src_missing = {}
    /\ dirs = {}
    /\ out_images = {}
    /\ out_labels = {}
    /\ yaml_written = FALSE
    /\ mat_todo = {}
    /\ written = {}
    /\ copied = 0
    /\ missing = 0
    /\ class_counts = <<>>

\* train() is not being called
TrOff ==
    /\ tr_pc = "off"
    /\ tr_files = {}
    /\ metrics_json = <<>>
    /\ results_csv = <<>>
    /\ model = "unbound"
    /\ m_local = <<>>
    /\ tr_error = "none"
    /\ epoch = 0

\* _iou is not being called directly
IouOff ==
    /\ iou_pc = "off"
    /\ iou_a = <<>>
    /\ iou_b = <<>>
    /\ iou_ab = <<>>
    /\ iou_ba = <<>>
    /\ iou_bb = <<>>

InitWBF ==
    /\ CdOff
    /\ IouOff
    /\ TrOff
    /\ wbf_pc = "call"
    /\ boxes_list \in WbfInputs
    /\ wbf_iou_thr \in WbfIouThrs
    /\ wbf_skip \in WbfSkipThrs
    /\ wbf_clusters = <<>>
    /\ wbf_out = <<>>
    /\ wbf_lines = <<>>

\* lines 258-277: fuse the image's boxes and convert the result
WbfCall ==
    /\ wbf_pc = "call"
    /\ wbf_pc' = "done"
    /\ wbf_clusters' = AllClusters(boxes_list, wbf_iou_thr, wbf_skip)
    /\ wbf_out' = weighted_boxes_fusion(boxes_list, wbf_iou_thr, wbf_skip)
    /\ wbf_lines' = YoloLines(wbf_out', WbfGrid, WbfGrid)
    /\ UNCHANGED <<boxes_list, wbf_iou_thr, wbf_skip>>
    /\ UNCHANGED <<cd_vars, iou_vars, tr_vars>>

NextWBF == WbfCall

SpecWBF == InitWBF /\ [][NextWBF]_vars

----------------------------------------------------------------------------
(* _iou called directly on two boxes.                                      *)

\* corner coordinates are drawn from 0..IouGrid
IouGrid == 3

\* every <<x1, y1, x2, y2>> on the grid, the degenerate ones included
IouBoxes == (0..IouGrid) \X (0..IouGrid) \X (0..IouGrid) \X (0..IouGrid)

WbfOff ==
    /\ wbf_pc = "off"
    /\ boxes_list = <<>>
    /\ wbf_iou_thr = <<0, 1>>
    /\ wbf_skip = 0
    /\ wbf_clusters = <<>>
    /\ wbf_out = <<>>
    /\ wbf_lines = <<>>

InitIou ==
    /\ CdOff
    /\ WbfOff
    /\ TrOff
    /\ iou_pc = "call"
    /\ iou_a \in IouBoxes
    /\ iou_b \in IouBoxes
    /\ iou_ab = <<>>
    /\ iou_ba = <<>>
    /\ iou_bb = <<>>

\* lines 96-108, called as line 76 calls it
IouCall ==
    /\ iou_pc = "call"
    /\ iou_pc' = "done"
    /\ iou_ab' = _iou(iou_a, iou_b)
    /\ iou_ba' = _iou(iou_b, iou_a)
    /\ iou_bb' = _iou(iou_b, iou_b)
    /\ UNCHANGED <<iou_a, iou_b>>
    /\ UNCHANGED <<cd_vars, wbf_vars, tr_vars>>

NextIou == IouCall

SpecIou == InitIou /\ [][NextIou]_vars

----------------------------------------------------------------------------
(* convert_dataset (lines 149-388): helpers. *)

\* the box of a row whose coordinate cells are empty (NaN): dropna
\* (line 185) drops the row when any of the four is missing
NaN == <<>>

\* class_id of a "No finding" row (lines 174-175)
NoFindingClass == 14

\* the default of the parameter iou_thr (line 154)
DefaultIouThr == <<1, 2>>

\* the score given to every radiologist's box (line 247), and the default
\* of skip_box_thr (line 26)
RadScore == 1
DefaultSkipBoxThr == 0

\* the distinct elements of a sequence, in order of first appearance
\* (pandas unique, dict insertion order)
RECURSIVE UniqueInOrder(_)
UniqueInOrder(s) ==
    IF s = <<>> THEN <<>>
    ELSE LET r == UniqueInOrder(SubSeq(s, 1, Len(s) - 1))
             x == s[Len(s)]
         IN  IF x \in Range(r) THEN r ELSE Append(r, x)

\* line 174, followed by dropna (line 185)
FindingRows(rows) == SelectSeq(rows, LAMBDA r : r.class_id # NoFindingClass)
DropNa(rows) == SelectSeq(rows, LAMBDA r : r.box # NaN)

\* lines 175-179
\* (mutant: finding_ids taken after the rows without a box were dropped)
PureNoFinding_afterDropna(rows) ==
    {rows[k].image_id : k \in {i \in 1..Len(rows) :
                                  rows[i].class_id = NoFindingClass}}
    \ {DropNa(FindingRows(rows))[k].image_id :
           k \in 1..Len(DropNa(FindingRows(rows)))}
PureNoFinding(rows) ==
    LET no_finding_ids ==
            {rows[k].image_id : k \in {i \in 1..Len(rows) :
                                          rows[i].class_id = NoFindingClass}}
        finding_ids == {FindingRows(rows)[k].image_id :
                            k \in 1..Len(FindingRows(rows))}
    IN  no_finding_ids \ finding_ids

\* lines 198-206: rows grouped by image, images in order of first row
GroupByImage(rows) ==
    LET ids == UniqueInOrder([k \in 1..Len(rows) |-> rows[k].image_id])
    IN  [n \in 1..Len(ids) |->
            [img  |-> ids[n],
             rows |-> SelectSeq(rows, LAMBDA r : r.image_id = ids[n])]]

\* line 205: each row overwrites the entry of its image, the last one stays
DisplaySizes(rows) ==
    [img \in {rows[k].image_id : k \in 1..Len(rows)} |->
        LET last == CHOOSE k \in 1..Len(rows) :
                        /\ rows[k].image_id = img
                        /\ \A m \in (k + 1)..Len(rows) : rows[m].image_id # img
        IN  rows[last].disp]

\* lines 232-241: a coordinate divided by the display size and clamped to
\* [0,1], counted in units of 1/disp
\* (mutant: no clamp at the upper edge)
ClampCoord_noUpper(v, disp) == Max2(0, v)
ClampCoord(v, disp) == Max2(0, Min2(disp, v))

NormBox(box, disp) ==
    <<ClampCoord(box[1], disp[1]), ClampCoord(box[2], disp[2]),
      ClampCoord(box[3], disp[1]), ClampCoord(box[4], disp[2])>>

\* line 243
\* (mutant: a box of zero width or height is kept)
EmptyBox_strict(b) == b[3] < b[1] \/ b[4] < b[2]
EmptyBox(b) == b[3] <= b[1] \/ b[4] <= b[2]

\* lines 227-248: the boxes of one radiologist
RadBoxes(rad_rows, disp) ==
    LET kept == SelectSeq(rad_rows,
                          LAMBDA r : ~EmptyBox(NormBox(r.box, disp)))
    IN  [k \in 1..Len(kept) |->
            [box   |-> NormBox(kept[k].box, disp),
             score |-> RadScore,
             label |-> kept[k].class_id]]

\* lines 218-253: boxes_list of one image, radiologists in order of first
\* row, a radiologist without a box left out
ImageBoxesList(rows, disp) ==
    LET rads == UniqueInOrder([k \in 1..Len(rows) |-> rows[k].rad_id])
        per_rad == [n \in 1..Len(rads) |->
                       RadBoxes(SelectSeq(rows,
                                          LAMBDA r : r.rad_id = rads[n]),
                                disp)]
    IN  SelectSeq(per_rad, LAMBDA b : b # <<>>)

\* lines 258-277: the label lines of one image
ImageLines(rows, disp, iou_thr) ==
    YoloLines(weighted_boxes_fusion(ImageBoxesList(rows, disp), iou_thr,
                                    DefaultSkipBoxThr),
              disp[1], disp[2])

DictKeys(d) == [k \in 1..Len(d) |-> d[k].img]
DictKeySet(d) == {d[k].img : k \in 1..Len(d)}

\* int(n * fraction) of lines 292, 300 and 304
IntTimes(n, q) == (n * q[1]) \div q[2]

(* random: the library generator is a deterministic function of its state. *)
(* It is modelled by a small linear congruential generator.                *)
RngModulus == 16
SeedRng(s) == s % RngModulus
RngNext(g) == (5 * g + 3) % RngModulus

Swap(x, i, j) ==
    [k \in 1..Len(x) |-> IF k = i THEN x[j] ELSE IF k = j THEN x[i] ELSE x[k]]

\* random.shuffle: for i from the last position down to the second,
\* j = randbelow(i + 1), swap.  Returns <<list, generator state>>.
RECURSIVE ShuffleFrom(_, _, _)
ShuffleFrom(x, i, g) ==
    IF i < 2 THEN <<x, g>>
    ELSE LET g2 == RngNext(g)
             j  == (g2 % i) + 1
         IN  ShuffleFrom(Swap(x, i, j), i - 1, g2)

Shuffle(x, g) == ShuffleFrom(x, Len(x), g)

\* list(a_set): the elements in whatever order the runtime iterates them
ListsOfSet(S) ==
    {x \in [1..Cardinality(S) -> S] : Range(x) = S}

\* lines 292-294 and 304-306: the first int(len * val_split) go to val
\* (mutant: round to nearest instead of truncating)
ValCount_round(n, vs) == (2 * n * vs[1] + vs[2]) \div (2 * vs[2])
ValCount(n, vs) == IntTimes(n, vs)
ValPart(x, vs) == Range(SubSeq(x, 1, ValCount(Len(x), vs)))
\* (mutant: the train slice starts one position early)
TrainPart_early(x, vs) ==
    Range(SubSeq(x, Max2(1, ValCount(Len(x), vs)), Len(x)))
TrainPart(x, vs) == Range(SubSeq(x, ValCount(Len(x), vs) + 1, Len(x)))

\* lines 300-301
\* (mutant: the product is rounded up)
NoFindingCount_ceil(n_finding, ratio, n_pool) ==
    Min2((n_finding * ratio[1] + ratio[2] - 1) \div ratio[2], n_pool)
NoFindingCount(n_finding, ratio, n_pool) ==
    Min2(IntTimes(n_finding, ratio), n_pool)

----------------------------------------------------------------------------
(* convert_dataset: the input and the stages. *)

\* display size of every image of the input (raw size times scale)
Disp == <<100, 100>>

\* what a row can hold besides its image id
RowKinds ==
    { [class_id |-> 14, rad_id |-> "R1", box |-> NaN],
      [class_id |-> 3,  rad_id |-> "R1", box |-> <<-5, 0, 40, 60>>],
      [class_id |-> 3,  rad_id |-> "R2", box |-> <<10, 0, 50, 60>>],
      [class_id |-> 3,  rad_id |-> "R1", box |-> NaN],
      [class_id |-> 7,  rad_id |-> "R2", box |-> <<100, 0, 120, 60>>] }

MkRow(img, kind) ==
    [image_id |-> img, class_id |-> kind.class_id, rad_id |-> kind.rad_id,
     box |-> kind.box, disp |-> Disp]

\* image ids are opaque: they are numbered by first appearance in the file
FirstAppearance(ids) ==
    \A k \in 1..Len(ids) :
        ids[k] <= 1 + Cardinality({ids[m] : m \in 1..(k - 1)})

InputFiles ==
    UNION { { [k \in 1..n |-> MkRow(ids[k], kinds[k])] :
                ids \in {i \in [1..n -> 1..n] : FirstAppearance(i)},
                kinds \in [1..n -> RowKinds] } : n \in 0..MaxRows }

ValSplits == { <<0, 4>>, <<2, 4>>, <<4, 4>> }
Ratios == { <<0, 4>>, <<4, 4>>, <<6, 4>>, <<8, 4>> }
Seeds == { 1, 2 }

\* the columns convert_dataset reads from the CSV
AllColumns ==
    { "image_id", "class_id", "rad_id", "x_min", "y_min", "x_max", "y_max",
      "raw_width", "raw_height", "scale_x", "scale_y" }

\* lines 170-185: df['image_id'], df['class_id'] and the dropna subset are
\* looked up on the frame itself, whatever rows it has
SeparateReads ==
    { "image_id", "class_id", "x_min", "y_min", "x_max", "y_max" }

\* lines 201-206: the row lookups of the loop body, once per finding row
GroupReads(fdf) ==
    IF fdf = <<>> THEN {}
    ELSE { "image_id", "raw_width", "scale_x", "raw_height", "scale_y" }

\* lines 219-248: the row lookups of one image's loops
FuseReads(rows) ==
    IF rows = <<>> THEN {}
    ELSE { "rad_id", "x_min", "y_min", "x_max", "y_max", "class_id" }

\* lines 318-320
SplitNames == <<"train", "val">>
\* (mutant: the labels directories are not made)
MadeDirs_imagesOnly ==
    { <<kind, SplitNames[k]>> : kind \in {"images"},
                                k \in 1..Len(SplitNames) }
MadeDirs ==
    { <<kind, SplitNames[k]>> : kind \in {"images", "labels"},
                                k \in 1..Len(SplitNames) }

\* lines 327-328: the pairs the two nested loops visit
ToVisit(train, val) ==
    { <<"train", img>> : img \in train } \cup { <<"val", img>> : img \in val }

\* line 327: the train set is iterated to its end before the val set, each
\* set in whatever order the runtime iterates it
VisitNext(todo) ==
    IF \E p \in todo : p[1] = "train"
    THEN { p \in todo : p[1] = "train" }
    ELSE todo

InDict(d, img) == img \in DictKeySet(d)
LinesOf(d, img) == d[CHOOSE k \in 1..Len(d) : d[k].img = img].lines

\* lines 345-346: open(dst_label, 'w') truncates, then the lines are written,
\* each ended by a newline; a file is the sequence of its lines
WriteLabel(files, split, img, lines) ==
    { f \in files : ~(f.split = split /\ f.img = img) }
        \cup { [split |-> split, img |-> img, lines |-> lines] }

\* line 349: touch creates an empty file, or leaves an existing file as it is
TouchLabel(files, split, img) ==
    IF \E f \in files : f.split = split /\ f.img = img
    THEN files
    ELSE files \cup { [split |-> split, img |-> img, lines |-> <<>>] }

\* lines 329-351: the body of the inner loop for one image
\* (mutant: the label file is written although the source image is missing)
MaterializeOne_labelAnyway(st, split, img, labels, found) ==
    [ images  |-> IF found THEN st.images \cup { <<split, img>> }
                  ELSE st.images,
      labels  |-> IF InDict(labels, img)
                  THEN WriteLabel(st.labels, split, img, LinesOf(labels, img))
                  ELSE TouchLabel(st.labels, split, img),
      copied  |-> IF found THEN st.copied + 1 ELSE st.copied,
      missing |-> IF found THEN st.missing ELSE st.missing + 1 ]
MaterializeOne(st, split, img, labels, found) ==
    IF ~found
    THEN [st EXCEPT !.missing = st.missing + 1]
    ELSE [ images  |-> st.images \cup { <<split, img>> },
           labels  |-> IF InDict(labels, img)
                       THEN WriteLabel(st.labels, split, img,
                                       LinesOf(labels, img))
                       ELSE TouchLabel(st.labels, split, img),
           copied  |-> st.copied + 1,
           missing |-> st.missing ]

\* line 130
NUM_CLASSES == 14

\* line 380: int(line.split()[0])
ClassOfLine(line) == line.cls

\* lines 377-385: the count printed for each class, from yolo_labels
\* (mutant: only the first line of every image is counted)
ClassCounts_firstLine(labels) ==
    [ i \in 0..(NUM_CLASSES - 1) |->
        Cardinality({ k \in 1..Len(labels) :
                        ClassOfLine(labels[k].lines[1]) = i }) ]
ClassCounts(labels) ==
    [ i \in 0..(NUM_CLASSES - 1) |->
        SumSeq([ k \in 1..Len(labels) |->
                   Len(SelectSeq(labels[k].lines,
                                 LAMBDA line : ClassOfLine(line) = i)) ]) ]

\* a run on a complete CSV, with every source image present, into an
\* output directory that does not exist yet
CleanRun ==
    /\ columns = AllColumns
    /\ src_missing = {}
    /\ dirs = {}
    /\ out_images = {}
    /\ out_labels = {}
    /\ yaml_written = FALSE

\* the locals of convert_dataset before its first statement
RunStart ==
    /\ pc = "read"
    /\ rng = 0
    /\ finding_df = <<>>
    /\ pure_no_finding = {}
    /\ image_annotations = <<>>
    /\ image_display_sizes = <<>>
    /\ fuse_idx = 0
    /\ yolo_labels = <<>>
    /\ finding_image_list = <<>>
    /\ selected_no_finding = <<>>
    /\ train_images = {}
    /\ val_images = {}
    /\ img_boxes_list = <<>>
    /\ merged_boxes = <<>>
    /\ mat_todo = {}
    /\ written = {}
    /\ copied = 0
    /\ missing = 0
    /\ class_counts = <<>>

Init ==
    /\ WbfOff
    /\ IouOff
    /\ TrOff
    /\ RunStart
    /\ CleanRun
    /\ run = 1
    /\ df \in InputFiles
    /\ val_split \in ValSplits
    /\ include_no_finding_ratio \in Ratios
    /\ seed \in Seeds
    /\ prev = <<>>

\* lines 159-185: seed the generator, read the CSV, separate the rows
Separate ==
    /\ pc = "read"
    /\ SeparateReads \subseteq columns
    /\ rng' = SeedRng(seed)
    /\ finding_df' = DropNa(FindingRows(df))
    /\ pure_no_finding' = PureNoFinding(df)
    /\ pc' = "group"
    /\ UNCHANGED <<run, df, val_split, include_no_finding_ratio, seed,
                   image_annotations, image_display_sizes, fuse_idx,
                   yolo_labels, finding_image_list, selected_no_finding,
                   train_images, val_images, prev, img_boxes_list,
                   merged_boxes, mat_vars>>
    /\ UNCHANGED <<wbf_vars, iou_vars, tr_vars>>

\* lines 170-185 on a frame without one of the columns: KeyError
SeparateAbort ==
    /\ pc = "read"
    /\ ~(SeparateReads \subseteq columns)
    /\ pc' = "aborted"
    /\ UNCHANGED <<run, df, val_split, include_no_finding_ratio, seed, rng,
                   finding_df, pure_no_finding, image_annotations,
                   image_display_sizes, fuse_idx, yolo_labels,
                   finding_image_list, selected_no_finding, train_images,
                   val_images, prev, img_boxes_list, merged_boxes, mat_vars>>
    /\ UNCHANGED <<wbf_vars, iou_vars, tr_vars>>

\* lines 198-211
Group ==
    /\ pc = "group"
    /\ GroupReads(finding_df) \subseteq columns
    /\ image_annotations' = GroupByImage(finding_df)
    /\ image_display_sizes' = DisplaySizes(finding_df)
    /\ yolo_labels' = <<>>
    /\ fuse_idx' = 1
    /\ pc' = "fuse"
    /\ UNCHANGED <<run, df, val_split, include_no_finding_ratio, seed, rng,
                   finding_df, pure_no_finding, finding_image_list,
                   selected_no_finding, train_images, val_images, prev,
                   img_boxes_list, merged_boxes, mat_vars>>
    /\ UNCHANGED <<wbf_vars, iou_vars, tr_vars>>

\* lines 201-204 on a row without one of the size columns: KeyError
GroupAbort ==
    /\ pc = "group"
    /\ ~(GroupReads(finding_df) \subseteq columns)
    /\ pc' = "aborted"
    /\ UNCHANGED <<run, df, val_split, include_no_finding_ratio, seed, rng,
                   finding_df, pure_no_finding, image_annotations,
                   image_display_sizes, fuse_idx, yolo_labels,
                   finding_image_list, selected_no_finding, train_images,
                   val_images, prev, img_boxes_list, merged_boxes, mat_vars>>
    /\ UNCHANGED <<wbf_vars, iou_vars, tr_vars>>

\* lines 213-280: one iteration of the loop over the images
FuseImage ==
    /\ pc = "fuse"
    /\ fuse_idx <= Len(image_annotations)
    /\ FuseReads(image_annotations[fuse_idx].rows) \subseteq columns
    /\ LET img   == image_annotations[fuse_idx].img
           rows  == image_annotations[fuse_idx].rows
           disp  == image_display_sizes[img]
           bl    == ImageBoxesList(rows, disp)
           lines == ImageLines(rows, disp, DefaultIouThr)
       IN  /\ yolo_labels' = IF lines # <<>>
                             THEN Append(yolo_labels,
                                         [img |-> img, lines |-> lines])
                             ELSE yolo_labels
           /\ img_boxes_list' = bl
           \* line 255: without a box the fusion is not called
           /\ merged_boxes' = IF bl = <<>> THEN merged_boxes
                              ELSE weighted_boxes_fusion(bl, DefaultIouThr,
                                                         DefaultSkipBoxThr)
    /\ fuse_idx' = fuse_idx + 1
    /\ UNCHANGED <<pc, run, df, val_split, include_no_finding_ratio, seed,
                   rng, finding_df, pure_no_finding, image_annotations,
                   image_display_sizes, finding_image_list,
                   selected_no_finding, train_images, val_images, prev,
                   mat_vars>>
    /\ UNCHANGED <<wbf_vars, iou_vars, tr_vars>>

\* line 220 on a row without rad_id: KeyError
FuseAbort ==
    /\ pc = "fuse"
    /\ fuse_idx <= Len(image_annotations)
    /\ ~(FuseReads(image_annotations[fuse_idx].rows) \subseteq columns)
    /\ pc' = "aborted"
    /\ UNCHANGED <<run, df, val_split, include_no_finding_ratio, seed, rng,
                   finding_df, pure_no_finding, image_annotations,
                   image_display_sizes, fuse_idx, yolo_labels,
                   finding_image_list, selected_no_finding, train_images,
                   val_images, prev, img_boxes_list, merged_boxes, mat_vars>>
    /\ UNCHANGED <<wbf_vars, iou_vars, tr_vars>>

\* lines 289-309, entered when the loop of line 213 is exhausted
Split ==
    /\ pc = "fuse"
    /\ fuse_idx > Len(image_annotations)
    /\ \E order \in ListsOfSet(pure_no_finding) :
         LET sh1 == Shuffle(DictKeys(yolo_labels), rng)
             sh2 == Shuffle(order, sh1[2])
             n   == NoFindingCount(Len(sh1[1]), include_no_finding_ratio,
                                   Len(sh2[1]))
             sel == SubSeq(sh2[1], 1, n)
         IN  /\ finding_image_list' = sh1[1]
             /\ selected_no_finding' = sel
             /\ rng' = sh2[2]
             /\ val_images' = ValPart(sh1[1], val_split)
                                \cup ValPart(sel, val_split)
             /\ train_images' = TrainPart(sh1[1], val_split)
                                  \cup TrainPart(sel, val_split)
    /\ pc' = "mkdirs"
    /\ UNCHANGED <<run, df, val_split, include_no_finding_ratio, seed,
                   finding_df, pure_no_finding, image_annotations,
                   image_display_sizes, fuse_idx, yolo_labels, prev,
                   img_boxes_list, merged_boxes, mat_vars>>
    /\ UNCHANGED <<wbf_vars, iou_vars, tr_vars>>

\* lines 317-325: the four directories, then the two counters
MkDirs ==
    /\ pc = "mkdirs"
    /\ dirs' = dirs \cup MadeDirs
    /\ missing' = 0
    /\ copied' = 0
    /\ written' = {}
    /\ mat_todo' = ToVisit(train_images, val_images)
    /\ pc' = "copy"
    /\ UNCHANGED <<run, df, val_split, include_no_finding_ratio, seed, rng,
                   finding_df, pure_no_finding, image_annotations,
                   image_display_sizes, fuse_idx, yolo_labels,
                   finding_image_list, selected_no_finding, train_images,
                   val_images, prev, img_boxes_list, merged_boxes, columns,
                   src_missing, out_images, out_labels, yaml_written,
                   class_counts>>
    /\ UNCHANGED <<wbf_vars, iou_vars, tr_vars>>

\* lines 327-351: one iteration of the inner loop
Materialize ==
    /\ pc = "copy"
    /\ \E p \in VisitNext(mat_todo) :
         LET found == p[2] \notin src_missing
             st    == MaterializeOne([images |-> out_images,
                                      labels |-> out_labels,
                                      copied |-> copied,
                                      missing |-> missing],
                                     p[1], p[2], yolo_labels, found)
         IN  /\ out_images' = st.images
             /\ out_labels' = st.labels
             /\ copied' = st.copied
             /\ missing' = st.missing
             /\ written' = IF st.copied > copied THEN written \cup {p}
                           ELSE written
             /\ mat_todo' = mat_todo \ {p}
    /\ UNCHANGED <<pc, run, df, val_split, include_no_finding_ratio, seed,
                   rng, finding_df, pure_no_finding, image_annotations,
                   image_display_sizes, fuse_idx, yolo_labels,
                   finding_image_list, selected_no_finding, train_images,
                   val_images, prev, img_boxes_list, merged_boxes, columns,
                   src_missing, dirs, yaml_written, class_counts>>
    /\ UNCHANGED <<wbf_vars, iou_vars, tr_vars>>

\* lines 353-388, entered when both loops of lines 327-328 are exhausted:
\* dataset.yaml is written and the per-class counts are printed
Finish ==
    /\ pc = "copy"
    /\ mat_todo = {}
    /\ yaml_written' = TRUE
    /\ class_counts' = ClassCounts(yolo_labels)
    /\ pc' = "done"
    /\ UNCHANGED <<run, df, val_split, include_no_finding_ratio, seed, rng,
                   finding_df, pure_no_finding, image_annotations,
                   image_display_sizes, fuse_idx, yolo_labels,
                   finding_image_list, selected_no_finding, train_images,
                   val_images, prev, img_boxes_list, merged_boxes, columns,
                   src_missing, dirs, out_images, out_labels, mat_todo,
                   written, copied, missing>>
    /\ UNCHANGED <<wbf_vars, iou_vars, tr_vars>>

\* the program is started again on the same CSV with the same images_dir
\* and output_dir: the locals start afresh, the output directory is as the
\* previous run left it
RunAgain(new_seed, new_val_split) ==
    /\ pc = "done"
    /\ run < MaxRuns
    /\ prev' = [yolo_labels |-> yolo_labels, train_images |-> train_images,
                val_images |-> val_images]
    /\ run' = run + 1
    /\ seed' = new_seed
    /\ val_split' = new_val_split
    /\ pc' = "read"
    /\ rng' = 0
    /\ finding_df' = <<>>
    /\ pure_no_finding' = {}
    /\ image_annotations' = <<>>
    /\ image_display_sizes' = <<>>
    /\ fuse_idx' = 0
    /\ yolo_labels' = <<>>
    /\ finding_image_list' = <<>>
    /\ selected_no_finding' = <<>>
    /\ train_images' = {}
    /\ val_images' = {}
    /\ img_boxes_list' = <<>>
    /\ merged_boxes' = <<>>
    /\ mat_todo' = {}
    /\ written' = {}
    /\ copied' = 0
    /\ missing' = 0
    /\ class_counts' = <<>>
    /\ UNCHANGED <<df, include_no_finding_ratio, columns, src_missing, dirs,
                   out_images, out_labels, yaml_written>>
    /\ UNCHANGED <<wbf_vars, iou_vars, tr_vars>>

\* ... with the same arguments
Rerun == RunAgain(seed, val_split)

\* ... with any seed and any val_split
RerunOther == \E s \in Seeds, v \in ValSplits : RunAgain(s, v)

\* one run of convert_dataset
Next ==
    \/ Separate
    \/ Group
    \/ FuseImage
    \/ Split
    \/ MkDirs
    \/ Materialize
    \/ Finish

Spec == Init /\ [][Next]_vars

\* the stages that compute the labels and the split (lines 159-309)
NextSplit ==
    \/ Separate
    \/ Group
    \/ FuseImage
    \/ Split

SpecSplit == Init /\ [][NextSplit]_vars

\* the script run repeatedly with the same arguments
NextRerun ==
    \/ Separate
    \/ Group
    \/ FuseImage
    \/ Split
    \/ MkDirs
    \/ Materialize
    \/ Finish
    \/ Rerun

SpecRerun == Init /\ [][NextRerun]_vars

----------------------------------------------------------------------------
(* convert_dataset run on a directory of images some of which are missing, *)
(* into an output directory that may hold files already.                   *)

\* rows of the runs on the file system: a background row, a box of class 3
\* and a box of class 7 apart from it
FsRowKinds ==
    { [class_id |-> 14, rad_id |-> "R1", box |-> NaN],
      [class_id |-> 3,  rad_id |-> "R1", box |-> <<-5, 0, 40, 60>>],
      [class_id |-> 7,  rad_id |-> "R2", box |-> <<60, 0, 90, 60>>] }

FsInputFiles ==
    UNION { { [k \in 1..n |-> MkRow(ids[k], kinds[k])] :
                ids \in {i \in [1..n -> 1..n] : FirstAppearance(i)},
                kinds \in [1..n -> FsRowKinds] } : n \in 0..MaxRows }

\* a label line left by an earlier conversion
StaleLine ==
    [cls |-> 0, x_center |-> 500000, y_center |-> 500000,
     width |-> 250000, height |-> 250000]

\* output_dir before the first run: absent, or the directories of an
\* earlier conversion with a label file of image 1 under one split
PriorOutputs ==
    { [dirs |-> {}, labels |-> {}] }
    \cup { [dirs   |-> MadeDirs,
            labels |-> { [split |-> SplitNames[k], img |-> 1,
                          lines |-> <<StaleLine>>] }] :
              k \in 1..Len(SplitNames) }

\* images_dir: at most one image of the CSV has no file
MissingSources(rows) ==
    { S \in SUBSET {rows[k].image_id : k \in 1..Len(rows)} :
        Cardinality(S) <= 1 }

InitFS ==
    /\ WbfOff
    /\ IouOff
    /\ TrOff
    /\ RunStart
    /\ run = 1
    /\ df \in FsInputFiles
    /\ val_split \in ValSplits
    /\ include_no_finding_ratio = <<4, 4>>
    /\ seed \in Seeds
    /\ prev = <<>>
    /\ columns = AllColumns
    /\ src_missing \in MissingSources(df)
    /\ \E prior \in PriorOutputs :
          /\ dirs = prior.dirs
          /\ out_labels = prior.labels
    /\ out_images = {}
    /\ yaml_written = FALSE

NextFS ==
    \/ Separate
    \/ Group
    \/ FuseImage
    \/ Split
    \/ MkDirs
    \/ Materialize
    \/ Finish

SpecFS == InitFS /\ [][NextFS]_vars

\* the script run repeatedly into the same output directory, with any
\* seed and val_split
NextReuse ==
    \/ Separate
    \/ Group
    \/ FuseImage
    \/ Split
    \/ MkDirs
    \/ Materialize
    \/ Finish
    \/ RerunOther

SpecReuse == InitFS /\ [][NextReuse]_vars

----------------------------------------------------------------------------
(* convert_dataset run on a CSV that may lack one of the columns.          *)

\* the header of the CSV: complete, or with one column absent
Headers == { AllColumns } \cup { AllColumns \ {c} : c \in AllColumns }

InitSchema ==
    /\ WbfOff
    /\ IouOff
    /\ TrOff
    /\ RunStart
    /\ src_missing = {}
    /\ dirs = {}
    /\ out_images = {}
    /\ out_labels = {}
    /\ yaml_written = FALSE
    /\ run = 1
    /\ df \in InputFiles
    /\ val_split \in ValSplits
    /\ include_no_finding_ratio = <<4, 4>>
    /\ seed \in Seeds
    /\ prev = <<>>
    /\ columns \in Headers

NextSchema ==
    \/ Separate
    \/ SeparateAbort
    \/ Group
    \/ GroupAbort
    \/ FuseImage
    \/ FuseAbort
    \/ Split
    \/ MkDirs
    \/ Materialize
    \/ Finish

SpecSchema == InitSchema /\ [][NextSchema]_vars

----------------------------------------------------------------------------
(* train() of final/training/train_yolo.py (lines 26-242).                 *)
(* A file is named by the variable train() binds its path to.  An mAP50    *)
(* is counted in steps of 1/MaxMap.                                        *)

\* epochs of one training the model follows
MaxEpochs == 2
\* the largest mAP50, in steps
MaxMap == 2

last_weights == "runs/active_run/weights/last.pt"
best_weights == "runs/active_run/weights/best.pt"
GLOBAL_BEST_WEIGHTS == "models/best.pt"
METRICS_JSON == "models/best_metrics.json"
v2_best == "runs/chest_xray_yolo11_v2/weights/best.pt"
csv_path == "runs/chest_xray_yolo11_v2/results.csv"

TrainPaths == {last_weights, best_weights, GLOBAL_BEST_WEIGHTS, METRICS_JSON,
               v2_best, csv_path}

\* a results.csv: unreadable, or a table with or without a column whose
\* name contains "metrics/mAP50(B)", one value per epoch
ResultFiles ==
    {[readable |-> FALSE, has_column |-> FALSE, mAP50 |-> <<>>],
     [readable |-> TRUE, has_column |-> FALSE, mAP50 |-> <<>>]}
    \cup {[readable |-> TRUE, has_column |-> TRUE, mAP50 |-> col] :
              col \in UNION {[1..n -> 0..MaxMap] : n \in 1..2}}

\* a best_metrics.json an earlier training left
StoredMetrics ==
    {[best_mAP50 |-> v, run_dir |-> "earlier_run"] : v \in 0..MaxMap}

\* lines 133-140
get_map_from_v2(files, csv) ==
    IF csv_path \notin files THEN 0
    ELSE IF ~csv.readable THEN 0
    ELSE IF ~csv.has_column THEN 0
    ELSE CHOOSE v \in Range(csv.mAP50) : \A w \in Range(csv.mAP50) : w <= v

\* lines 158-162
CurrentBenchmark(files, metrics) ==
    IF METRICS_JSON \in files THEN metrics.best_mAP50 ELSE 0

InitTrain ==
    /\ CdOff
    /\ WbfOff
    /\ IouOff
    /\ tr_pc = "start"
    /\ tr_files \in SUBSET TrainPaths
    /\ metrics_json \in IF METRICS_JSON \in tr_files THEN StoredMetrics
                                                      ELSE {<<>>}
    /\ results_csv \in IF csv_path \in tr_files THEN ResultFiles ELSE {<<>>}
    /\ model = "unbound"
    /\ m_local = <<>>
    /\ tr_error = "none"
    /\ epoch = 0

\* lines 28-66: resume_mode = last_weights.exists()
TrainStart ==
    /\ tr_pc = "start"
    /\ tr_pc' = IF last_weights \in tr_files THEN "resume" ELSE "weights"
    /\ UNCHANGED <<tr_files, metrics_json, results_csv, model, m_local,
                   tr_error, epoch>>
    /\ UNCHANGED <<cd_vars, wbf_vars, iou_vars>>

\* lines 66-119: resume from last.pt; when that training had finished,
\* train anew from the run's best.pt, without the callback of line 154
Resume ==
    /\ tr_pc = "resume"
    /\ \E outcome \in {"resumed", "is finished", "other error"} :
           IF outcome = "resumed"
           THEN /\ model' = "last_weights"
                /\ tr_pc' = "returned"
                /\ tr_error' = "none"
           ELSE IF outcome = "is finished" /\ best_weights \in tr_files
           THEN /\ model' = "best_weights"
                /\ tr_pc' = "returned"
                /\ tr_error' = "none"
           ELSE /\ model' = "last_weights"
                /\ tr_pc' = "failed"
                /\ tr_error' = outcome
    /\ UNCHANGED <<tr_files, metrics_json, results_csv, m_local, epoch>>
    /\ UNCHANGED <<cd_vars, wbf_vars, iou_vars>>

\* lines 121-130 and 147-151: the weights the new run starts from
LoadWeights ==
    /\ tr_pc = "weights"
    /\ IF GLOBAL_BEST_WEIGHTS \in tr_files
       THEN model' = "GLOBAL_BEST_WEIGHTS" /\ tr_pc' = "add_callback"
       ELSE IF v2_best \in tr_files
       THEN model' = "v2_best" /\ tr_pc' = "seed"
       ELSE model' = "ROOT_WEIGHTS" /\ tr_pc' = "add_callback"
    /\ UNCHANGED <<tr_files, metrics_json, results_csv, m_local, tr_error,
                   epoch>>
    /\ UNCHANGED <<cd_vars, wbf_vars, iou_vars>>

\* lines 132-145: seed best_metrics.json from the v2 results when absent
SeedMetrics ==
    /\ tr_pc = "seed"
    /\ IF METRICS_JSON \notin tr_files
       THEN LET v == get_map_from_v2(tr_files, results_csv)
            IN  /\ m_local' = <<v>>
                /\ tr_files' = tr_files \cup {METRICS_JSON}
                /\ metrics_json' = [best_mAP50 |-> v, run_dir |-> "v2_fallback"]
       ELSE UNCHANGED <<m_local, tr_files, metrics_json>>
    /\ tr_pc' = "print"
    /\ UNCHANGED <<results_csv, model, tr_error, epoch>>
    /\ UNCHANGED <<cd_vars, wbf_vars, iou_vars>>

\* line 146: the print reads m, which only line 142 binds
PrintSeeded ==
    /\ tr_pc = "print"
    /\ IF m_local = <<>>
       THEN tr_pc' = "failed" /\ tr_error' = "UnboundLocalError"
       ELSE tr_pc' = "add_callback" /\ tr_error' = "none"
    /\ UNCHANGED <<tr_files, metrics_json, results_csv, model, m_local, epoch>>
    /\ UNCHANGED <<cd_vars, wbf_vars, iou_vars>>

\* lines 187-196: register the callback and call model.train
StartTraining ==
    /\ tr_pc = "add_callback"
    /\ tr_pc' = "training"
    /\ epoch' = 0
    /\ UNCHANGED <<tr_files, metrics_json, results_csv, model, m_local,
                   tr_error>>
    /\ UNCHANGED <<cd_vars, wbf_vars, iou_vars>>

\* lines 154-184, once an epoch: the trainer may have saved last.pt and
\* best.pt of the run; a better mAP50 than the benchmark copies best.pt to
\* models/ and rewrites best_metrics.json (its updated_at is left out)
on_train_epoch_end ==
    /\ tr_pc = "training"
    /\ epoch < MaxEpochs
    /\ \E current_run_best \in 0..MaxMap, saved \in BOOLEAN :
           LET files == IF saved
                        THEN tr_files \cup {last_weights, best_weights}
                        ELSE tr_files
           IN  IF /\ current_run_best > CurrentBenchmark(files, metrics_json)
                  /\ best_weights \in files
               THEN /\ tr_files' = files \cup {GLOBAL_BEST_WEIGHTS, METRICS_JSON}
                    /\ metrics_json' = [best_mAP50 |-> current_run_best,
                                        run_dir |-> "runs/active_run"]
               ELSE /\ tr_files' = files
                    /\ metrics_json' = metrics_json
    /\ epoch' = epoch + 1
    /\ UNCHANGED <<tr_pc, results_csv, model, m_local, tr_error>>
    /\ UNCHANGED <<cd_vars, wbf_vars, iou_vars>>

\* line 242
TrainReturn ==
    /\ tr_pc = "training"
    /\ tr_pc' = "returned"
    /\ UNCHANGED <<tr_files, metrics_json, results_csv, model, m_local,
                   tr_error, epoch>>
    /\ UNCHANGED <<cd_vars, wbf_vars, iou_vars>>

NextTrain ==
    \/ TrainStart
    \/ Resume
    \/ LoadWeights
    \/ SeedMetrics
    \/ PrintSeeded
    \/ StartTraining
    \/ on_train_epoch_end
    \/ TrainReturn

SpecTrain == InitTrain /\ [][NextTrain]_vars

----------------------------------------------------------------------------
(* Properties of the split (convert_dataset, lines 289-309). *)

\* the split of line 289-309 has been computed: the run is past it
SplitComputed == pc \in {"mkdirs", "copy", "done"}

\* the images with at least one consensus box, and the selected backgrounds
FindingSet == DictKeySet(yolo_labels)
BackgroundSet == Range(selected_no_finding)

\* C1: when the split is computed, train_images and val_images are
\* disjoint and their union is exactly the images with a consensus box
\* plus the selected background images.
C1_SplitIsPartition ==
    SplitComputed =>
        /\ train_images \cap val_images = {}
        /\ train_images \cup val_images = FindingSet \cup BackgroundSet
        /\ FindingSet \cap BackgroundSet = {}

C1_Witness ==
    /\ SplitComputed
    /\ train_images \cap FindingSet # {}
    /\ train_images \cap BackgroundSet # {}
    /\ val_images # {}

\* C2: a second run on the same rows, parameters and seed computes the
\* same train/val assignment and the same label lines as the first.
C2_RerunSameResult ==
    (pc = "done" /\ run = 2) =>
        /\ yolo_labels = prev.yolo_labels
        /\ train_images = prev.train_images
        /\ val_images = prev.val_images

\* the rows of one image that carry a finding class
FindingRowsOf(img) ==
    {k \in 1..Len(df) : df[k].image_id = img
                          /\ df[k].class_id # NoFindingClass}

\* a row whose box never reaches the fusion: empty coordinates, or an
\* empty area once divided by the display size and clamped to [0,1]
RowDropped(r) ==
    \/ r.box = NaN
    \/ LET x1 == Max2(0, Min2(r.disp[1], r.box[1]))
           y1 == Max2(0, Min2(r.disp[2], r.box[2]))
           x2 == Max2(0, Min2(r.disp[1], r.box[3]))
           y2 == Max2(0, Min2(r.disp[2], r.box[4]))
       IN  x2 <= x1 \/ y2 <= y1

AllBoxesDropped(img) ==
    /\ FindingRowsOf(img) # {}
    /\ \A k \in FindingRowsOf(img) : RowDropped(df[k])

InputImages == {df[k].image_id : k \in 1..Len(df)}

\* C3: an image with a row of a finding class is never selected as a
\* background image; when all its boxes were dropped it has no labels and
\* is in neither train_images nor val_images.
C3_NoBackgroundReclassification ==
    SplitComputed =>
        \A img \in InputImages :
            FindingRowsOf(img) # {} =>
                /\ img \notin BackgroundSet
                /\ AllBoxesDropped(img) =>
                       /\ img \notin FindingSet
                       /\ img \notin train_images \cup val_images

\* an image with a "No finding" row and a finding row whose box was
\* dropped, in a run that has room for a background image
C3_Witness ==
    /\ SplitComputed
    /\ \E img \in InputImages :
           /\ AllBoxesDropped(img)
           /\ \E k \in 1..Len(df) : df[k].image_id = img
                                      /\ df[k].class_id = NoFindingClass
    /\ (Len(yolo_labels) * include_no_finding_ratio[1])
           \div include_no_finding_ratio[2] >= 1

\* C4: the number of selected background images is
\* min(floor(F * include_no_finding_ratio), P), all of them distinct images
\* of the pure no-finding pool; ratio 1.0 with F = P = 1000 selects 1000.
C4_BackgroundCount ==
    /\ SplitComputed =>
        LET F == Cardinality(FindingSet)
            P == Cardinality(pure_no_finding)
            cap == (F * include_no_finding_ratio[1])
                       \div include_no_finding_ratio[2]
        IN  /\ Len(selected_no_finding) = IF cap <= P THEN cap ELSE P
            /\ Cardinality(BackgroundSet) = Len(selected_no_finding)
            /\ BackgroundSet \subseteq pure_no_finding
            /\ Cardinality(BackgroundSet) * include_no_finding_ratio[2]
                   <= F * include_no_finding_ratio[1]
    /\ NoFindingCount(1000, <<4, 4>>, 1000) = 1000

\* the ratio, not the pool, limits the selection, and F * ratio is no integer
C4_Witness ==
    /\ SplitComputed
    /\ Len(selected_no_finding) = 1
    /\ Cardinality(pure_no_finding) = 2
    /\ include_no_finding_ratio = <<6, 4>>

\* C5: val_images holds floor(F * val_split) finding images and
\* floor(B * val_split) background images, train_images the others;
\* val_split 0.15 of 1000 is 150.
C5_SplitCounts ==
    /\ SplitComputed =>
        LET F == Cardinality(FindingSet)
            B == Cardinality(BackgroundSet)
            fv == (F * val_split[1]) \div val_split[2]
            bv == (B * val_split[1]) \div val_split[2]
        IN  /\ Cardinality(val_images \cap FindingSet) = fv
            /\ Cardinality(val_images \cap BackgroundSet) = bv
            /\ Cardinality(train_images \cap FindingSet) = F - fv
            /\ Cardinality(train_images \cap BackgroundSet) = B - bv
    /\ ValCount(1000, <<15, 100>>) = 150
    /\ 1000 - ValCount(1000, <<15, 100>>) = 850

\* one finding image (floor(1/2) = 0) and two background images (1 and 1)
C5_Witness ==
    /\ SplitComputed
    /\ val_split = <<2, 4>>
    /\ Cardinality(FindingSet) = 1
    /\ Cardinality(BackgroundSet) = 2

----------------------------------------------------------------------------
(* Properties of weighted_boxes_fusion (lines 26-93). *)

\* the pooled boxes: those with score > skip_box_thr, in encounter order
Pooled == SelectSeq(Flatten(boxes_list), LAMBDA e : e.score > wbf_skip)

PooledCount(l) == Cardinality({i \in 1..Len(Pooled) : Pooled[i].label = l})
OutCount(l) == Cardinality({k \in 1..Len(wbf_out) : wbf_out[k].label = l})
LabelsSeen ==
    {Flatten(boxes_list)[i].label : i \in 1..Len(Flatten(boxes_list))}
        \cup {wbf_out[k].label : k \in 1..Len(wbf_out)}

\* C6: per label, the fusion outputs at most as many boxes as were pooled,
\* at least one when one was pooled, none when none was pooled.
C6_OutputCountBounds ==
    wbf_pc = "done" =>
        \A l \in LabelsSeen :
            /\ OutCount(l) <= PooledCount(l)
            /\ PooledCount(l) >= 1 => OutCount(l) >= 1
            /\ PooledCount(l) = 0 => OutCount(l) = 0

\* two pooled boxes of one label fused into one, and a label whose only
\* box was below the skip threshold
C6_Witness ==
    /\ wbf_pc = "done"
    /\ \E l \in LabelsSeen : PooledCount(l) >= 2 /\ OutCount(l) = 1
    /\ \E l \in LabelsSeen : PooledCount(l) = 0

IouAbove(i, j) ==
    LET q == _iou(Pooled[i].box, Pooled[j].box)
    IN  q[1] * wbf_iou_thr[2] > wbf_iou_thr[1] * q[2]

MembersOf(k) == Range(wbf_clusters[k].members)
EarlierMembers(k) == UNION {MembersOf(m) : m \in 1..(k - 1)}
\* the pooled boxes of cluster k's label not clustered before cluster k
Candidates(k) ==
    {j \in 1..Len(Pooled) :
        Pooled[j].label = wbf_clusters[k].label /\ j \notin EarlierMembers(k)}

\* C7: the seed of a cluster is the first box of its label not clustered
\* yet; a later such box is in the cluster iff its IoU with the seed is
\* strictly above iou_thr, whatever its IoU with the other members.
C7_SeedAnchored ==
    wbf_pc = "done" =>
        \A k \in 1..Len(wbf_clusters) :
            LET sd == wbf_clusters[k].members[1]
            IN  /\ sd \in Candidates(k)
                /\ \A j \in Candidates(k) :
                       /\ sd <= j
                       /\ j # sd => (j \in MembersOf(k) <=> IouAbove(sd, j))
                       /\ (/\ ~IouAbove(sd, j)
                           /\ \E m \in MembersOf(k) \ {sd} : IouAbove(m, j))
                          => j \notin MembersOf(k)

\* a box left out of a cluster although it overlaps a non-seed member
C7_Witness ==
    /\ wbf_pc = "done"
    /\ \E k \in 1..Len(wbf_clusters) :
           \E j \in Candidates(k) \ MembersOf(k) :
               \E m \in MembersOf(k) \ {wbf_clusters[k].members[1]} :
                   IouAbove(m, j)

\* C8: every pooled box is in exactly one cluster, the members of a
\* cluster carry the cluster's label, and the output holds one box per
\* cluster, labelled with the cluster's label.
C8_ClustersPartitionPool ==
    wbf_pc = "done" =>
        /\ \A i \in 1..Len(Pooled) :
               Cardinality({k \in 1..Len(wbf_clusters) : i \in MembersOf(k)})
                   = 1
        /\ \A k \in 1..Len(wbf_clusters) :
               /\ MembersOf(k) \subseteq 1..Len(Pooled)
               /\ Cardinality(MembersOf(k)) = Len(wbf_clusters[k].members)
               /\ \A i \in MembersOf(k) :
                      Pooled[i].label = wbf_clusters[k].label
        /\ Len(wbf_out) = Len(wbf_clusters)
        /\ \A k \in 1..Len(wbf_out) :
               wbf_out[k].label = wbf_clusters[k].label

\* the same box pooled under two labels, and a cluster of two boxes
C8_Witness ==
    /\ wbf_pc = "done"
    /\ \E i, j \in 1..Len(Pooled) :
           Pooled[i].box = Pooled[j].box /\ Pooled[i].label # Pooled[j].label
    /\ \E k \in 1..Len(wbf_clusters) : Len(wbf_clusters[k].members) >= 2

MemberScores(k) ==
    [n \in 1..Len(wbf_clusters[k].members) |->
        Pooled[wbf_clusters[k].members[n]].score]
MemberCoords(k, c) ==
    [n \in 1..Len(wbf_clusters[k].members) |->
        Pooled[wbf_clusters[k].members[n]].box[c]]

\* C9: each coordinate of a consensus box is the score-weighted mean of
\* the members' coordinate, lies between their minimum and maximum, and
\* equals the member's coordinate in a cluster of one.
C9_WeightedMeanInHull ==
    wbf_pc = "done" =>
        \A k \in 1..Len(wbf_clusters) : \A c \in 1..4 :
            LET s == MemberScores(k)
                x == MemberCoords(k, c)
                o == wbf_out[k].box[c]
                den == SumSeq(s)
                num == SumSeq([n \in 1..Len(s) |-> s[n] * x[n]])
            IN  /\ \A n \in 1..Len(s) : s[n] > 0
                /\ o[2] > 0
                /\ o[1] * den = num * o[2]
                /\ \E n \in 1..Len(x) : x[n] * o[2] <= o[1]
                /\ \E n \in 1..Len(x) : x[n] * o[2] >= o[1]
                /\ Len(x) = 1 => o[1] = x[1] * o[2]

\* a cluster of two different boxes with different scores
C9_Witness ==
    /\ wbf_pc = "done"
    /\ \E k \in 1..Len(wbf_clusters) :
           /\ Len(wbf_clusters[k].members) = 2
           /\ MemberScores(k)[1] # MemberScores(k)[2]
           /\ MemberCoords(k, 1)[1] # MemberCoords(k, 1)[2]

\* Example 1: two class-3 boxes (0.10,0.10,0.30,0.30) and
\* (0.12,0.11,0.31,0.29), score 1.0, iou_thr 0.5
Example1Input ==
    LET e1 == [box |-> BoxX1, score |-> 1, label |-> 3]
        e2 == [box |-> BoxX2, score |-> 1, label |-> 3]
    IN  /\ Flatten(boxes_list) \in {<<e1, e2>>, <<e2, e1>>}
        /\ wbf_iou_thr = <<1, 2>>
        /\ wbf_skip = 0

\* C10, as stated: the example yields the single box
\* (x_c=0.2075, y_c=0.20, w=0.205, h=0.195).
C10_Example1AsStated ==
    (wbf_pc = "done" /\ Example1Input) =>
        wbf_lines = << [cls |-> 3, x_center |-> 207500, y_center |-> 200000,
                        width |-> 205000, height |-> 195000] >>

\* C10, amended: the example yields the single box
\* (x_c=0.2075, y_c=0.20, w=0.195, h=0.19).
C10_Example1 ==
    (wbf_pc = "done" /\ Example1Input) =>
        wbf_lines = << [cls |-> 3, x_center |-> 207500, y_center |-> 200000,
                        width |-> 195000, height |-> 190000] >>

C10_Witness == wbf_pc = "done" /\ Example1Input /\ Len(wbf_out) = 1

----------------------------------------------------------------------------
(* Properties of _iou (lines 96-108). *)

ValidBox(b) == b[1] < b[3] /\ b[2] < b[4]
DegenerateBox(b) == b[3] <= b[1] \/ b[4] <= b[2]

\* a quotient <<n, d>> the code can have computed: d > 0, no division by 0
Defined(q) == q[2] > 0
QEq(q1, q2) == q1[1] * q2[2] = q2[1] * q1[2]

\* C11: for valid boxes a and b (x1 < x2 and y1 < y2), _iou(b, b) = 1,
\* 0 <= _iou(a, b) <= 1 and _iou(a, b) = _iou(b, a).
C11_IouAlgebra ==
    (iou_pc = "done" /\ ValidBox(iou_a) /\ ValidBox(iou_b)) =>
        /\ Defined(iou_ab) /\ Defined(iou_ba) /\ Defined(iou_bb)
        /\ iou_bb[1] = iou_bb[2]
        /\ 0 <= iou_ab[1] /\ iou_ab[1] <= iou_ab[2]
        /\ QEq(iou_ab, iou_ba)

\* two different valid boxes that overlap in part
C11_Witness ==
    /\ iou_pc = "done"
    /\ ValidBox(iou_a) /\ ValidBox(iou_b)
    /\ iou_a # iou_b
    /\ 0 < iou_ab[1] /\ iou_ab[1] < iou_ab[2]

\* C12: _iou returns exactly 0, and divides by no zero, whenever at least
\* one argument box is degenerate (x2 <= x1 or y2 <= y1), a box with both
\* extents negative included, whatever the other box is.
C12_DegenerateIsZero ==
    (iou_pc = "done" /\ (DegenerateBox(iou_a) \/ DegenerateBox(iou_b))) =>
        /\ Defined(iou_ab) /\ iou_ab[1] = 0
        /\ Defined(iou_ba) /\ iou_ba[1] = 0

\* a box with both extents negative, lying inside a valid box
C12_Witness ==
    /\ iou_pc = "done"
    /\ iou_a[3] < iou_a[1] /\ iou_a[4] < iou_a[2]
    /\ ValidBox(iou_b)
    /\ iou_b[1] <= iou_a[3] /\ iou_a[1] <= iou_b[3]
    /\ iou_b[2] <= iou_a[4] /\ iou_a[2] <= iou_b[4]

----------------------------------------------------------------------------
(* Properties of the boxes handed to the fusion (lines 218-256). *)

\* the image the loop of line 213 handled last, and its display size
LastFused == image_annotations[fuse_idx - 1]
LastDisp == image_display_sizes[LastFused.img]

\* a CSV coordinate divided by the display size d and clamped to [0,1],
\* in units of 1/d
InFrame(v, d) == IF v < 0 THEN 0 ELSE IF v > d THEN d ELSE v
FrameBox(r, d) ==
    <<InFrame(r.box[1], d[1]), InFrame(r.box[2], d[2]),
      InFrame(r.box[3], d[1]), InFrame(r.box[4], d[2])>>
HasExtent(b) == b[1] < b[3] /\ b[2] < b[4]

\* the rows of the image whose clamped box has an extent
RowsWithExtent ==
    SelectSeq(LastFused.rows, LAMBDA r : HasExtent(FrameBox(r, LastDisp)))

\* C13: every box passed to weighted_boxes_fusion satisfies
\* 0 <= x1 < x2 <= 1 and 0 <= y1 < y2 <= 1 (here in units of the display
\* size), and a record whose clamped box has x2 <= x1 or y2 <= y1 is
\* dropped without an error and without affecting the other records: the
\* boxes passed are exactly the clamped boxes of the remaining rows.
C13_BoxesPassedAreValid ==
    (pc = "fuse" /\ fuse_idx > 1) =>
        LET passed == Flatten(img_boxes_list)
        IN  /\ \A k \in 1..Len(passed) :
                   /\ 0 <= passed[k].box[1]
                   /\ passed[k].box[1] < passed[k].box[3]
                   /\ passed[k].box[3] <= LastDisp[1]
                   /\ 0 <= passed[k].box[2]
                   /\ passed[k].box[2] < passed[k].box[4]
                   /\ passed[k].box[4] <= LastDisp[2]
            /\ Len(passed) = Len(RowsWithExtent)
            /\ \A n \in 1..Len(RowsWithExtent) :
                   \E k \in 1..Len(passed) :
                      /\ passed[k].box = FrameBox(RowsWithExtent[n], LastDisp)
                      /\ passed[k].label = RowsWithExtent[n].class_id
            /\ \A g \in 1..Len(img_boxes_list) : img_boxes_list[g] # <<>>

\* an image one of whose records is dropped and another one kept
C13_Witness ==
    /\ pc = "fuse"
    /\ fuse_idx > 1
    /\ Len(RowsWithExtent) >= 1
    /\ Len(RowsWithExtent) < Len(LastFused.rows)
    /\ Flatten(img_boxes_list) # <<>>

----------------------------------------------------------------------------
(* Properties of the consensus boxes converted (lines 259-277). *)

\* quotients with positive denominators
QLt(q1, q2) == q1[1] * q2[2] < q2[1] * q1[2]
QLe(q1, q2) == q1[1] * q2[2] <= q2[1] * q1[2]

\* a coordinate of a consensus box, a quotient in units of 1/d, as a
\* fraction of the frame
OfFrame(q, d) == <<q[1], q[2] * d>>

\* C19: every consensus box convert_dataset converts lies in the unit
\* frame with positive extent, so x_center and y_center are in [0,1] and
\* width and height in (0,1] before formatting, and the re-clamp of lines
\* 272-275 changes none of the four values.
C19_ConsensusInFrame ==
    (pc = "fuse" /\ fuse_idx > 1) =>
        \A k \in 1..Len(merged_boxes) :
            LET b  == merged_boxes[k].box
                x1 == OfFrame(b[1], LastDisp[1])
                y1 == OfFrame(b[2], LastDisp[2])
                x2 == OfFrame(b[3], LastDisp[1])
                y2 == OfFrame(b[4], LastDisp[2])
                cf == CenterForm(b, LastDisp[1], LastDisp[2])
            IN  /\ QLe(<<0, 1>>, x1) /\ QLt(x1, x2) /\ QLe(x2, <<1, 1>>)
                /\ QLe(<<0, 1>>, y1) /\ QLt(y1, y2) /\ QLe(y2, <<1, 1>>)
                /\ QLe(<<0, 1>>, cf.x_center) /\ QLe(cf.x_center, <<1, 1>>)
                /\ QLe(<<0, 1>>, cf.y_center) /\ QLe(cf.y_center, <<1, 1>>)
                /\ QLt(<<0, 1>>, cf.width) /\ QLe(cf.width, <<1, 1>>)
                /\ QLt(<<0, 1>>, cf.height) /\ QLe(cf.height, <<1, 1>>)
                /\ Clamp01(cf.x_center) = cf.x_center
                /\ Clamp01(cf.y_center) = cf.y_center
                /\ Clamp01(cf.width) = cf.width
                /\ Clamp01(cf.height) = cf.height

\* a consensus box fused from two radiologists' boxes, one of them clamped
C19_Witness ==
    /\ pc = "fuse"
    /\ fuse_idx > 1
    /\ Len(Flatten(img_boxes_list)) >= 2
    /\ Len(merged_boxes) = 1
    /\ \E r \in Range(LastFused.rows) : FrameBox(r, LastDisp) # r.box

----------------------------------------------------------------------------
(* Order of the stages (lines 213-351). *)

\* the images with a finding row whose box reaches the fusion
WithConsensus ==
    { img \in InputImages : FindingRowsOf(img) # {} /\ ~AllBoxesDropped(img) }

SplitSet(split) == IF split = "train" THEN train_images ELSE val_images

\* C18: the split starts only after the fusion has finished for every
\* image, so the list it shuffles is the complete set of images with at
\* least one consensus box; and no image or label file is written into a
\* split directory before the split is computed and the images/ and
\* labels/ directories of that split have been made.
C18_StagesInOrder ==
    /\ pc \in {"mkdirs", "copy", "done"} =>
          /\ fuse_idx > Len(image_annotations)
          /\ Range(finding_image_list) = WithConsensus
          /\ Len(finding_image_list) = Cardinality(WithConsensus)
          /\ train_images \cup val_images =
                 WithConsensus \cup Range(selected_no_finding)
    /\ pc \in {"read", "group", "fuse", "mkdirs"} =>
          /\ written = {}
          /\ run = 1 => (out_images = {} /\ out_labels = {})
    /\ \A p \in written :
          /\ pc \in {"copy", "done"}
          /\ p[2] \in SplitSet(p[1])
          /\ p \in out_images
          /\ \E f \in out_labels : f.split = p[1] /\ f.img = p[2]
    /\ \A p \in out_images : <<"images", p[1]>> \in dirs
    /\ \A f \in out_labels : <<"labels", f.split>> \in dirs

\* the copy loop under way: a file written under val, another image still
\* to come
C18_Witness ==
    /\ pc = "copy"
    /\ run = 1
    /\ \E p \in written : p[1] = "val"
    /\ mat_todo # {}
    /\ Len(finding_image_list) >= 2

----------------------------------------------------------------------------
(* Properties of the copy loop (lines 323-351). *)

\* the pairs the loops of lines 327-328 have visited so far
Visited == ToVisit(train_images, val_images) \ mat_todo

\* C14: a selected image without a source file does not abort the run:
\* no image and no label file is written for it, missing goes up by one,
\* the split sets stay as computed, every other selected image is
\* materialized, and at the end
\* copied + missing = |train_images| + |val_images|.
C14_MissingSourceSkipped ==
    pc \in {"copy", "done"} =>
        /\ missing = Cardinality({p \in Visited : p[2] \in src_missing})
        /\ copied = Cardinality({p \in Visited : p[2] \notin src_missing})
        /\ \A p \in Visited :
              IF p[2] \in src_missing
              THEN /\ p \notin written
                   /\ p \notin out_images
                   /\ \A f \in out_labels :
                         f.img = p[2] => f.lines = <<StaleLine>>
              ELSE /\ p \in written
                   /\ p \in out_images
                   /\ \E f \in out_labels : f.split = p[1] /\ f.img = p[2]
        /\ train_images \cup val_images = FindingSet \cup BackgroundSet
        /\ pc = "done" =>
              /\ mat_todo = {}
              /\ copied + missing =
                    Cardinality(train_images) + Cardinality(val_images)

\* a finished run that skipped one image and materialized another after it
C14_Witness ==
    /\ pc = "done"
    /\ missing = 1
    /\ copied >= 1
    /\ \E p \in written, q \in Visited :
          q[2] \in src_missing /\ p[1] = "val" /\ q[1] = "train"

----------------------------------------------------------------------------
(* Properties of the per-class statistics (lines 373-385). *)

\* the label files this run wrote
WrittenFiles == { f \in out_labels : <<f.split, f.img>> \in written }

\* label lines of class c in the files this run wrote
LinesInFiles(c) ==
    Cardinality({ <<f, j>> \in WrittenFiles \X (1..MaxRows) :
                    j <= Len(f.lines) /\ ClassOfLine(f.lines[j]) = c })

\* consensus lines of class c in yolo_labels
LinesInMemory(c) ==
    Cardinality({ <<k, j>> \in (1..Len(yolo_labels)) \X (1..MaxRows) :
                    /\ j <= Len(yolo_labels[k].lines)
                    /\ ClassOfLine(yolo_labels[k].lines[j]) = c })

\* C15 as stated: the per-class counts reported equal, for every class,
\* the label lines of that class in the label files written by this run.
C15_CountsOfWrittenFiles ==
    pc = "done" =>
        \A c \in 0..(NUM_CLASSES - 1) : class_counts[c] = LinesInFiles(c)

\* C15 (amended): the per-class counts reported equal, for every class,
\* the consensus lines of that class in yolo_labels, the lines of an image
\* skipped for its missing source image included.
C15_CountsOfFusionResult ==
    pc = "done" =>
        /\ DOMAIN class_counts = 0..(NUM_CLASSES - 1)
        /\ \A c \in 0..(NUM_CLASSES - 1) : class_counts[c] = LinesInMemory(c)

\* a finished run that skipped an image with a consensus box and counted
\* lines of two classes
C15_Witness ==
    /\ pc = "done"
    /\ FindingSet \cap src_missing # {}
    /\ class_counts[3] >= 1
    /\ class_counts[7] >= 1
    /\ \E k \in 1..Len(yolo_labels) : Len(yolo_labels[k].lines) = 2

----------------------------------------------------------------------------
(* Properties of the label files (lines 342-349). *)

\* what the label file of a materialized image shall hold
ExpectedLines(img) ==
    IF img \in FindingSet THEN LinesOf(yolo_labels, img) ELSE <<>>

\* C16: when a run completes, whatever output_dir held before, the label
\* file of every materialized image holds exactly the consensus lines of
\* the image, and the label file of a materialized background image is
\* empty.
C16_LabelFilesExact ==
    pc = "done" =>
        \A p \in written :
            \A f \in out_labels :
                (f.split = p[1] /\ f.img = p[2]) =>
                    f.lines = ExpectedLines(p[2])

----------------------------------------------------------------------------
(* Properties of the output directory after several runs. *)

\* no file in the output is older than the runs
OnlyRunsWrote == \A f \in out_labels : f.lines # <<StaleLine>>

\* the <<split, img>> that have a file in the output
OnDisk == out_images \cup { <<f.split, f.img>> : f \in out_labels }

\* C20: after any sequence of completed runs into the same output
\* directory (same input, any seeds and val_split), no image has files
\* under both train and val: the files describe the partition of the last
\* run.
C20_OnePartitionOnDisk ==
    (pc = "done" /\ OnlyRunsWrote) =>
        /\ \A p \in OnDisk, q \in OnDisk : p[2] = q[2] => p[1] = q[1]
        /\ \A p \in OnDisk : p[2] \in SplitSet(p[1])

----------------------------------------------------------------------------
(* Properties of the input schema (lines 166-220). *)

NothingWritten ==
    /\ dirs = {}
    /\ out_images = {}
    /\ out_labels = {}
    /\ ~yaml_written

\* C17: if any required column is absent from the input, convert_dataset
\* aborts with an error for every input content, an input with only
\* no-finding rows included, before any output directory, image, label
\* file or dataset.yaml is written.
C17_MissingColumnAborts ==
    columns # AllColumns =>
        /\ pc \notin {"mkdirs", "copy", "done"}
        /\ NothingWritten


----------------------------------------------------------------------------
(* Properties of train (train_yolo.py, lines 120-151 and 186-240). *)

\* train() has not called model.train yet: no weight file has changed
BeforeTraining ==
    tr_pc \in {"start", "weights", "seed", "print", "add_callback", "failed"}

\* no last.pt of the active run, no models/best.pt, and the v2 best.pt
V2Fallback ==
    /\ BeforeTraining
    /\ last_weights \notin tr_files
    /\ GLOBAL_BEST_WEIGHTS \notin tr_files
    /\ v2_best \in tr_files

\* C21: without last.pt of the active run and without models/best.pt, and
\* with the v2 run's best.pt, train() does not fail before model.train is
\* called, whether or not best_metrics.json exists; when it calls
\* model.train the model was built from the v2 weights and
\* best_metrics.json exists, seeded from the v2 results if it was absent.
C21_V2FallbackStartsTraining ==
    V2Fallback =>
        /\ tr_pc # "failed"
        /\ tr_pc = "add_callback" =>
               /\ model = "v2_best"
               /\ METRICS_JSON \in tr_files
               /\ m_local # <<>> =>
                      metrics_json =
                          [best_mAP50 |-> get_map_from_v2(tr_files, results_csv),
                           run_dir |-> "v2_fallback"]
====
